---- MODULE Spec2Model ----
(***************************************************************************)
(* CPU scheduling simulator: the Process entity (models/process.py), the   *)
(* simulation engine Scheduler.run (models/scheduler.py) and the policies  *)
(* FCFS, SJF, SRTF, Round Robin, Priority and Multilevel Queue             *)
(* (algorithms/*.py).  One step of the model is one iteration of the       *)
(* engine's while loop; a process object is identified by its index in     *)
(* the scheduler's process list.                                           *)
(***************************************************************************)
EXTENDS Integers, Sequences, FiniteSets

(* ------------------------------ bounds --------------------------------- *)
MaxProcs == 2
MaxArrival == 2
MaxBurst == 2
MaxPriority == 2
MaxQuantum == 2
MaxOverhead == 1
MaxQueueCount == 3
MaxUntil == 1
MaxRuns == 2
MaxLogLen == 5

(* --------------------------- program constants ------------------------- *)
\* Python's None for start_time, finish_time, response_time, until_time.
None == -1
\* The two sentinel subjects of execution-log entries.
IDLE == -2
CS == -3
\* "No process": the value None of Scheduler.current_process.
NoProcess == 0
\* No scheduler has run the process list before this one.
NoScheduler == <<>>
\* Scheduler.time_slice as set by Scheduler.__init__.
DefaultTimeSlice == 1
\* The quanta of the Multilevel Queue's Round Robin tiers.
HighTimeQuantum == 2
MediumTimeQuantum == 4

VARIABLES
    kind,                     \* which Scheduler subclass the object is
    time_quantum,             \* RoundRobinScheduler.time_quantum
    preemptive,               \* PriorityScheduler.preemptive
    queue_count,              \* MultilevelQueueScheduler.queue_count
    context_switch_overhead,  \* Scheduler.context_switch_overhead
    processes,                \* Scheduler.processes, a list of Process objects
    current_time,             \* Scheduler.current_time
    time_slice,               \* Scheduler.time_slice
    current_process,          \* Scheduler.current_process (an index, or NoProcess)
    completed_processes,      \* Scheduler.completed_processes (indices)
    execution_log,            \* Scheduler.execution_log
    ready_queue,              \* RoundRobinScheduler.ready_queue (indices)
    queues,                   \* MultilevelQueueScheduler.queues[k]["queue"]
    until_time,               \* the argument of the run() call in progress
    pc,                       \* "new", "running" (inside run's loop), "done", "crashed"
    run_history,              \* what each finished run() call returned
    previous_scheduler        \* the scheduler that ran the process list before
                              \* this one (run_simulation), with what it reported

statics == <<kind, time_quantum, preemptive, queue_count, context_switch_overhead>>
vars == <<kind, time_quantum, preemptive, queue_count, context_switch_overhead,
          processes, current_time, time_slice, current_process,
          completed_processes, execution_log, ready_queue, queues,
          until_time, pc, run_history, previous_scheduler>>

(* ------------------------------ helpers -------------------------------- *)
Min2(a, b) == IF a <= b THEN a ELSE b
Max2(a, b) == IF a >= b THEN a ELSE b

Contains(s, x) == \E k \in 1..Len(s) : s[k] = x

\* deque.remove(x): removes the first occurrence; ValueError (swallowed) if absent.
RemoveFirst(s, x) ==
    IF ~Contains(s, x) THEN s
    ELSE LET k == CHOOSE k \in 1..Len(s) : s[k] = x /\ \A j \in 1..(k-1) : s[j] # x
         IN  SubSeq(s, 1, k-1) \o SubSeq(s, k+1, Len(s))

\* Python's ordering of equal-length tuples of integers.
LexLess(a, b) ==
    \E k \in 1..Len(a) : a[k] < b[k] /\ \A j \in 1..(k-1) : a[j] = b[j]

\* The positions of the keys that no other key is less than / is greater than.
MinimalPositions(keys) ==
    {k \in 1..Len(keys) : \A j \in 1..Len(keys) : ~LexLess(keys[j], keys[k])}

MaximalPositions(keys) ==
    {k \in 1..Len(keys) : \A j \in 1..Len(keys) : ~LexLess(keys[k], keys[j])}

\* min(seq, key=...) and max(seq, key=...) return the first such element.
ArgMin(keys) ==
    CHOOSE k \in MinimalPositions(keys) : \A m \in MinimalPositions(keys) : k <= m

ArgMax(keys) ==
    CHOOSE k \in MaximalPositions(keys) : \A m \in MaximalPositions(keys) : k <= m

RECURSIVE SumDurations(_)
SumDurations(h) ==
    IF h = <<>> THEN 0 ELSE (Head(h)[2] - Head(h)[1]) + SumDurations(Tail(h))

(* ------------------------- models/process.py --------------------------- *)
NewProcess(pid, arrival_time, burst_time, priority) ==
    [pid |-> pid, arrival_time |-> arrival_time, burst_time |-> burst_time,
     priority |-> priority,
     remaining_time |-> burst_time, start_time |-> None, finish_time |-> None,
     waiting_time |-> 0, response_time |-> None, state |-> "new",
     execution_history |-> <<>>]

\* Mutant: the executed time is not capped by the remaining time.
ActualExecutionUncapped(p, tq) == tq

\* The value Process.execute returns.
ActualExecution(p, tq) == Min2(tq, p.remaining_time)

\* Mutant: start_time and response_time are assigned on every dispatch.
FirstDispatchAlways(p) == TRUE

\* "if self.start_time is None": the process has never been dispatched.
FirstDispatch(p) == p.start_time = None

\* Mutant: finish_time is taken from the clock at which the dispatch began.
ExecuteFinishAtStart(p, current, tq) ==
    LET s1 == IF p.state = "new" THEN "ready" ELSE p.state
        s2 == IF s1 # "running" THEN "running" ELSE s1
        first == FirstDispatch(p)
        actual_execution == ActualExecution(p, tq)
        remaining == p.remaining_time - actual_execution
    IN  [p EXCEPT
            !.start_time = IF first THEN current ELSE @,
            !.response_time = IF first THEN current - p.arrival_time ELSE @,
            !.remaining_time = remaining,
            !.execution_history = Append(@, <<current, current + actual_execution>>),
            !.state = IF remaining <= 0 THEN "terminated" ELSE s2,
            !.finish_time = IF remaining <= 0 THEN current ELSE @]

\* Mutant: the history records the whole quantum, not what was executed.
ExecuteHistoryWholeQuantum(p, current, tq) ==
    LET s1 == IF p.state = "new" THEN "ready" ELSE p.state
        s2 == IF s1 # "running" THEN "running" ELSE s1
        first == FirstDispatch(p)
        actual_execution == ActualExecution(p, tq)
        remaining == p.remaining_time - actual_execution
    IN  [p EXCEPT
            !.start_time = IF first THEN current ELSE @,
            !.response_time = IF first THEN current - p.arrival_time ELSE @,
            !.remaining_time = remaining,
            !.execution_history = Append(@, <<current, current + tq>>),
            !.state = IF remaining <= 0 THEN "terminated" ELSE s2,
            !.finish_time = IF remaining <= 0 THEN current + actual_execution ELSE @]

\* The process object after Process.execute(current, tq).
Execute(p, current, tq) ==
    LET s1 == IF p.state = "new" THEN "ready" ELSE p.state
        s2 == IF s1 # "running" THEN "running" ELSE s1
        first == FirstDispatch(p)
        actual_execution == ActualExecution(p, tq)
        remaining == p.remaining_time - actual_execution
    IN  [p EXCEPT
            !.start_time = IF first THEN current ELSE @,
            !.response_time = IF first THEN current - p.arrival_time ELSE @,
            !.remaining_time = remaining,
            !.execution_history = Append(@, <<current, current + actual_execution>>),
            !.state = IF remaining <= 0 THEN "terminated" ELSE s2,
            !.finish_time = IF remaining <= 0 THEN current + actual_execution ELSE @]

\* Mutant: waiting time is added whatever the state of the process.
WaitInAnyState(p, time) == [p EXCEPT !.waiting_time = @ + time]

Wait(p, time) ==
    IF p.state = "ready" \/ p.state = "waiting"
    THEN [p EXCEPT !.waiting_time = @ + time]
    ELSE p

GetTurnaroundTime(p) ==
    IF p.finish_time # None THEN p.finish_time - p.arrival_time ELSE None

\* Mutant: the arrival comparison is reversed.
IsArrivedReversed(p, current) == current <= p.arrival_time

IsArrived(p, current) == current >= p.arrival_time

IsTerminated(p) == p.state = "terminated"

\* Mutant: start_time takes the old finish_time before that is cleared.
ProcessResetStartFromFinish(p) ==
    [p EXCEPT !.remaining_time = p.burst_time, !.start_time = p.finish_time,
              !.finish_time = None, !.waiting_time = 0, !.response_time = None,
              !.state = "new", !.execution_history = <<>>]

ProcessReset(p) ==
    [p EXCEPT !.remaining_time = p.burst_time, !.start_time = None,
              !.finish_time = None, !.waiting_time = 0, !.response_time = None,
              !.state = "new", !.execution_history = <<>>]

(* ------------------------- algorithms/fcfs.py -------------------------- *)
\* Mutant: the key orders by burst time instead of arrival time.
FCFSKeyByBurst(i) == <<processes[i].burst_time, processes[i].pid>>

FCFSKey(i) == <<processes[i].arrival_time, processes[i].pid>>

\* Mutant: max instead of min, the latest arrival is selected.
FCFSGetNextProcessLatest(ready) ==
    ready[ArgMax([k \in 1..Len(ready) |-> FCFSKey(ready[k])])]

FCFSGetNextProcess(ready) ==
    ready[ArgMin([k \in 1..Len(ready) |-> FCFSKey(ready[k])])]

\* sorted(seq, key=lambda p: (p.arrival_time, p.pid)): stable.
RECURSIVE SortedByArrival(_)
SortedByArrival(s) ==
    IF s = <<>> THEN <<>>
    ELSE <<FCFSGetNextProcess(s)>>
         \o SortedByArrival(RemoveFirst(s, FCFSGetNextProcess(s)))

(* -------------------------- algorithms/sjf.py -------------------------- *)
\* Mutant: the key starts with burst_time instead of remaining_time.
SJFKeyByBurst(i) ==
    <<processes[i].burst_time, processes[i].arrival_time, processes[i].pid>>

SJFKey(i) == <<processes[i].remaining_time, processes[i].arrival_time, processes[i].pid>>

CurrentStillReady(ready) ==
    Contains(ready, current_process) /\ ~IsTerminated(processes[current_process])

\* min(ready_processes, key=(remaining_time, arrival_time, pid)).
ShortestRemaining(ready) ==
    ready[ArgMin([k \in 1..Len(ready) |-> SJFKey(ready[k])])]

\* Mutant: SJF without the keep-current rule.
SJFGetNextProcessPreempting(ready) == ShortestRemaining(ready)

SJFGetNextProcess(ready) ==
    IF CurrentStillReady(ready) THEN current_process ELSE ShortestRemaining(ready)

\* Mutant: SRTF keeps the current process like SJF does (no preemption).
SRTFKeepsCurrent(ready) ==
    IF CurrentStillReady(ready) THEN current_process ELSE ShortestRemaining(ready)

SRTFGetNextProcess(ready) == ShortestRemaining(ready)

(* ------------------------ algorithms/priority.py ----------------------- *)
PriorityKey(i) == <<processes[i].priority, -processes[i].arrival_time, processes[i].pid>>

PriorityGetNextProcess(ready) ==
    IF ~preemptive /\ CurrentStillReady(ready)
    THEN current_process
    ELSE ready[ArgMax([k \in 1..Len(ready) |-> PriorityKey(ready[k])])]

(* ----------------------- algorithms/round_robin.py --------------------- *)
\* Mutant: newly ready processes are put at the head of the ready queue.
RECURSIVE RRAppendNewAtHead(_, _, _)
RRAppendNewAtHead(queue, ready, current_pids) ==
    IF ready = <<>> THEN queue
    ELSE LET p == Head(ready)
             q == IF processes[p].pid \notin current_pids /\ ~Contains(queue, p)
                  THEN <<p>> \o queue ELSE queue
         IN  RRAppendNewAtHead(q, Tail(ready), current_pids)

\* The loop that appends newly ready processes to the ready queue.
RECURSIVE RRAppendNew(_, _, _)
RRAppendNew(queue, ready, current_pids) ==
    IF ready = <<>> THEN queue
    ELSE LET p == Head(ready)
             q == IF processes[p].pid \notin current_pids /\ ~Contains(queue, p)
                  THEN Append(queue, p) ELSE queue
         IN  RRAppendNew(q, Tail(ready), current_pids)

\* Mutant: the current process is put back at the head of the queue.
RRRequeueCurrentAtHead(queue, ready) ==
    IF CurrentStillReady(ready)
    THEN <<current_process>> \o RemoveFirst(queue, current_process)
    ELSE queue

\* The queue after the current process has been moved to the back.
RRRequeueCurrent(queue, ready) ==
    IF CurrentStillReady(ready)
    THEN Append(RemoveFirst(queue, current_process), current_process)
    ELSE queue

\* Mutant: the final pop takes the tail of the queue instead of its head.
RRPopNextFromTail(q, ready) ==
    IF q = <<>> /\ ready # <<>>
    THEN [next |-> Head(SortedByArrival(ready)),
          ready_queue |-> Tail(SortedByArrival(ready))]
    ELSE IF q # <<>>
         THEN [next |-> q[Len(q)], ready_queue |-> SubSeq(q, 1, Len(q) - 1)]
         ELSE [next |-> NoProcess, ready_queue |-> q]

\* The inconsistency fallback and the final popleft, on the updated queue q:
\* [next: the process returned (NoProcess for None), ready_queue: the queue left].
RRPopNext(q, ready) ==
    IF q = <<>> /\ ready # <<>>
    THEN [next |-> Head(SortedByArrival(ready)),
          ready_queue |-> Tail(SortedByArrival(ready))]
    ELSE IF q # <<>>
         THEN [next |-> Head(q), ready_queue |-> Tail(q)]
         ELSE [next |-> NoProcess, ready_queue |-> q]

RRCurrentPids == {processes[ready_queue[k]].pid : k \in 1..Len(ready_queue)}

RRGetNextProcess(ready) ==
    RRPopNext(RRRequeueCurrent(RRAppendNew(ready_queue, ready, RRCurrentPids), ready),
              ready)

(* ----------------------- algorithms/multilevel.py ---------------------- *)
\* self.queues as built by __init__: one High queue, queue_count - 2 Medium
\* queues, one Low queue.
EmptyQueues(qc) == [k \in 1..(1 + Max2(0, qc - 2) + 1) |-> <<>>]

QueueAlgorithm(qs, k) == IF k = Len(qs) THEN "FCFS" ELSE "RR"

QueueTimeQuantum(k) == IF k = 1 THEN HighTimeQuantum ELSE MediumTimeQuantum

\* Mutant: the priority itself, not its inverse, is taken as the queue index.
GetQueueForProcessNotInverted(p) ==
    Min2(Max2(0, p.priority), queue_count - 1) + 1

\* get_queue_for_process, as a 1-based position in queues.
GetQueueForProcess(p) ==
    Min2(Max2(0, queue_count - 1 - p.priority), queue_count - 1) + 1

InAnyQueue(qs, p) == \E k \in 1..Len(qs) : Contains(qs[k], p)

\* The loop that enqueues newly ready processes into their tiers.
RECURSIVE MLQEnqueueNew(_, _)
MLQEnqueueNew(qs, ready) ==
    IF ready = <<>> THEN qs
    ELSE LET p == Head(ready)
             qi == GetQueueForProcess(processes[p])
             qs1 == IF ~InAnyQueue(qs, p) /\ p # current_process
                    THEN [qs EXCEPT ![qi] = Append(@, p)] ELSE qs
         IN  MLQEnqueueNew(qs1, Tail(ready))

\* "Handle the current process": requeue it at the back of its Round Robin tier.
MLQRequeueCurrent(qs, ready) ==
    IF CurrentStillReady(ready)
    THEN LET qi == GetQueueForProcess(processes[current_process])
         IN  IF QueueAlgorithm(qs, qi) = "RR"
             THEN LET removed == [k \in 1..Len(qs) |-> RemoveFirst(qs[k], current_process)]
                  IN  [removed EXCEPT ![qi] = Append(@, current_process)]
             ELSE qs
    ELSE qs

\* Mutant: the queues are scanned from the lowest tier upwards.
FirstNonEmptyFromLowest(qs) ==
    IF \A k \in 1..Len(qs) : qs[k] = <<>> THEN 0
    ELSE CHOOSE k \in 1..Len(qs) :
             qs[k] # <<>> /\ \A m \in (k+1)..Len(qs) : qs[m] = <<>>

\* The first non-empty queue of qs (0 when all are empty).
FirstNonEmpty(qs) ==
    IF \A k \in 1..Len(qs) : qs[k] = <<>> THEN 0
    ELSE CHOOSE k \in 1..Len(qs) : qs[k] # <<>> /\ \A m \in 1..(k-1) : qs[m] = <<>>

\* Mutant: without the fallback, None is returned when every queue is empty.
MLQPopNextNoFallback(qs, k, ready) ==
    IF k # 0
    THEN [next |-> Head(qs[k]),
          queues |-> [qs EXCEPT ![k] = Tail(@)],
          time_slice |-> IF QueueAlgorithm(qs, k) = "RR"
                         THEN QueueTimeQuantum(k) ELSE time_slice]
    ELSE [next |-> NoProcess, queues |-> qs, time_slice |-> time_slice]

\* The selection loop over the updated queues qs, k being the first non-empty one:
\* [next, queues: the queues left, time_slice: Scheduler.time_slice afterwards].
MLQPopNext(qs, k, ready) ==
    IF k # 0
    THEN [next |-> Head(qs[k]),
          queues |-> [qs EXCEPT ![k] = Tail(@)],
          time_slice |-> IF QueueAlgorithm(qs, k) = "RR"
                         THEN QueueTimeQuantum(k) ELSE time_slice]
    ELSE [next |-> IF ready # <<>> THEN FCFSGetNextProcess(ready) ELSE NoProcess,
          queues |-> qs,
          time_slice |-> time_slice]

MLQUpdatedQueues(ready) == MLQRequeueCurrent(MLQEnqueueNew(queues, ready), ready)

MLQSelect(qs, ready) == MLQPopNext(qs, FirstNonEmpty(qs), ready)

MLQGetNextProcess(ready) == MLQSelect(MLQUpdatedQueues(ready), ready)

(* ------------------------- models/scheduler.py ------------------------- *)
\* A policy that keeps no state of its own returns only the process.
Stateless(next_process) ==
    [next |-> next_process, ready_queue |-> ready_queue, queues |-> queues,
     time_slice |-> time_slice]

RRResult(r) ==
    [next |-> r.next, ready_queue |-> r.ready_queue, queues |-> queues,
     time_slice |-> time_slice]

MLQResult(r) ==
    [next |-> r.next, ready_queue |-> ready_queue, queues |-> r.queues,
     time_slice |-> r.time_slice]

\* get_next_process of the object's class, with the policy state it leaves.
GetNextProcess(ready) ==
    CASE kind = "FCFS" -> Stateless(FCFSGetNextProcess(ready))
      [] kind = "SJF" -> Stateless(SJFGetNextProcess(ready))
      [] kind = "SRTF" -> Stateless(SRTFGetNextProcess(ready))
      [] kind = "Priority" -> Stateless(PriorityGetNextProcess(ready))
      [] kind = "RR" -> RRResult(RRGetNextProcess(ready))
      [] kind = "MLQ" -> MLQResult(MLQGetNextProcess(ready))

\* ready_processes of one loop iteration: indices, in list order.
ReadyProcesses ==
    SelectSeq([i \in 1..Len(processes) |-> i],
              LAMBDA i : IsArrived(processes[i], current_time)
                         /\ ~IsTerminated(processes[i]))

\* Mutant: the idle branch jumps to the latest arrival left, not the earliest.
NextArrivalLatest ==
    LET later == {processes[i].arrival_time : i \in
                    {j \in 1..Len(processes) :
                        ~IsTerminated(processes[j])
                        /\ processes[j].arrival_time > current_time}}
    IN  IF later = {} THEN None
        ELSE CHOOSE a \in later : \A b \in later : a >= b

\* next_arrival of the idle branch (None when no arrival is left).
NextArrival ==
    LET later == {processes[i].arrival_time : i \in
                    {j \in 1..Len(processes) :
                        ~IsTerminated(processes[j])
                        /\ processes[j].arrival_time > current_time}}
    IN  IF later = {} THEN None
        ELSE CHOOSE a \in later : \A b \in later : a <= b

\* Mutant: the while condition does not look at the time budget.
LoopConditionIgnoresBudget == Len(completed_processes) < Len(processes)

\* The while condition of run().
LoopCondition ==
    /\ Len(completed_processes) < Len(processes)
    /\ (until_time = None \/ current_time < until_time)

\* Mutant: a context switch is charged also when no process holds the CPU.
NeedsContextSwitchFromNone(next_process) ==
    /\ context_switch_overhead > 0
    /\ current_process # next_process

\* Whether the iteration charges a context switch before dispatching next.
NeedsContextSwitch(next_process) ==
    /\ context_switch_overhead > 0
    /\ current_process # next_process
    /\ current_process # NoProcess

\* p.wait(time) for every ready process other than next_process.
WaitOthers(procs, ready, next_process, time) ==
    [i \in 1..Len(procs) |->
        IF Contains(ready, i) /\ i # next_process THEN Wait(procs[i], time)
        ELSE procs[i]]

\* sum(p.get_waiting_time() for p in completed), completed a list of indices.
RECURSIVE SumWaitingTime(_)
SumWaitingTime(completed) ==
    IF completed = <<>> THEN 0
    ELSE processes[Head(completed)].waiting_time + SumWaitingTime(Tail(completed))

RECURSIVE SumTurnaroundTime(_)
SumTurnaroundTime(completed) ==
    IF completed = <<>> THEN 0
    ELSE GetTurnaroundTime(processes[Head(completed)])
         + SumTurnaroundTime(Tail(completed))

RECURSIVE SumResponseTime(_)
SumResponseTime(completed) ==
    IF completed = <<>> THEN 0
    ELSE processes[Head(completed)].response_time + SumResponseTime(Tail(completed))

\* sum(end - start for pid, start, end in execution_log if pid == subject).
RECURSIVE SumLog(_, _)
SumLog(log, subject) ==
    IF log = <<>> THEN 0
    ELSE (IF Head(log)[1] = subject THEN Head(log)[3] - Head(log)[2] ELSE 0)
         + SumLog(Tail(log), subject)

\* The execution time of the completed processes, from their histories.
RECURSIVE SumExecutionTimes(_)
SumExecutionTimes(completed) ==
    IF completed = <<>> THEN 0
    ELSE SumDurations(processes[Head(completed)].execution_history)
         + SumExecutionTimes(Tail(completed))

\* The value of a / b: the fraction num / den; den = 0 stands for the
\* ZeroDivisionError that a / 0 raises.
Quotient(a, b) == [num |-> a, den |-> b]

\* The integer 0 that the guarded branches return.
Zero == [num |-> 0, den |-> 1]

GetAverageWaitingTime ==
    IF completed_processes = <<>> THEN Zero
    ELSE Quotient(SumWaitingTime(completed_processes), Len(completed_processes))

GetAverageTurnaroundTime ==
    IF completed_processes = <<>> THEN Zero
    ELSE Quotient(SumTurnaroundTime(completed_processes), Len(completed_processes))

GetAverageResponseTime ==
    IF completed_processes = <<>> THEN Zero
    ELSE Quotient(SumResponseTime(completed_processes), Len(completed_processes))

\* Mutant: the utilization is computed without the guard on a clock of 0.
GetCpuUtilizationUnguarded ==
    Quotient((current_time - SumLog(execution_log, IDLE) - SumLog(execution_log, CS))
                * 100,
             current_time)

GetCpuUtilization ==
    IF current_time = 0 THEN Zero
    ELSE Quotient((current_time - SumLog(execution_log, IDLE)
                      - SumLog(execution_log, CS)) * 100,
                  current_time)

\* PerformanceMetrics.calculate_metrics(completed, total_time, name).
CalculateMetrics(completed, total_time) ==
    IF completed = <<>>
    THEN [avg_waiting_time |-> Zero, avg_turnaround_time |-> Zero,
          avg_response_time |-> Zero, throughput |-> Zero,
          cpu_utilization |-> Zero]
    ELSE [avg_waiting_time |-> Quotient(SumWaitingTime(completed), Len(completed)),
          avg_turnaround_time |->
              Quotient(SumTurnaroundTime(completed), Len(completed)),
          avg_response_time |-> Quotient(SumResponseTime(completed), Len(completed)),
          throughput |-> Quotient(Len(completed), total_time),
          cpu_utilization |->
              IF total_time > 0
              THEN Quotient(SumExecutionTimes(completed) * 100, total_time)
              ELSE Zero]

(* ------------------------------- Init ---------------------------------- *)
Kinds == {"FCFS", "SJF", "SRTF", "RR", "Priority", "MLQ"}

PidOrders(n) == {f \in [1..n -> 1..n] : \A i, j \in 1..n : f[i] = f[j] => i = j}

ProcessParams ==
    [arrival_time : 0..MaxArrival, burst_time : 1..MaxBurst, priority : 0..MaxPriority]

\* The pinned scenario P1(0,5), P2(1,3), P3(2,1), priority 0.
ScenarioWorkload ==
    <<NewProcess(1, 0, 5, 0), NewProcess(2, 1, 3, 0), NewProcess(3, 2, 1, 0)>>

BoundedWorkloads ==
    UNION {
        { [i \in 1..n |-> NewProcess(pids[i], w[i].arrival_time, w[i].burst_time,
                                     w[i].priority)]
            : w \in [1..n -> ProcessParams], pids \in PidOrders(n) }
        : n \in 0..MaxProcs }

\* Three processes listed out of arrival order: P1(0,2), P2(2,1), P3(1,1).
OutOfOrderWorkload ==
    <<NewProcess(1, 0, 2, 0), NewProcess(2, 2, 1, 0), NewProcess(3, 1, 1, 0)>>

\* Three processes whose priorities lie below, above and inside the range of
\* the tier indices: P1(0,2) priority -1, P2(1,3) priority 3, P3(1,2) priority 1.
MixedPriorityWorkload ==
    <<NewProcess(1, 0, 2, 0 - 1), NewProcess(2, 1, 3, 3), NewProcess(3, 1, 2, 1)>>

Workloads ==
    BoundedWorkloads
        \cup {ScenarioWorkload, OutOfOrderWorkload, MixedPriorityWorkload}

\* A scheduler constructed (__init__), configured and given its processes.
Init ==
    /\ kind \in Kinds
    /\ time_quantum \in (IF kind = "RR" THEN 1..MaxQuantum ELSE {None})
    /\ preemptive \in (IF kind = "Priority" THEN BOOLEAN ELSE {FALSE})
    /\ queue_count \in (IF kind = "MLQ" THEN 2..MaxQueueCount ELSE {None})
    /\ context_switch_overhead \in 0..MaxOverhead
    /\ processes \in Workloads
    /\ current_time = 0
    /\ time_slice = (IF kind = "RR" THEN time_quantum ELSE DefaultTimeSlice)
    /\ current_process = NoProcess
    /\ completed_processes = <<>>
    /\ execution_log = <<>>
    /\ ready_queue = <<>>
    /\ queues = (IF kind = "MLQ" THEN EmptyQueues(queue_count) ELSE <<>>)
    /\ until_time = None
    /\ pc = "new"
    /\ run_history = <<>>
    /\ previous_scheduler = NoScheduler

(* ------------------------------- reset --------------------------------- *)
\* The mutable attributes of the scheduler object and of its processes.
CurrentState ==
    [processes |-> processes, current_time |-> current_time,
     time_slice |-> time_slice, current_process |-> current_process,
     completed_processes |-> completed_processes,
     execution_log |-> execution_log, ready_queue |-> ready_queue,
     queues |-> queues]

\* Mutant: the completed list is not cleared.
SchedulerResetKeepsCompleted(s) ==
    [s EXCEPT !.current_time = 0, !.current_process = NoProcess,
              !.execution_log = <<>>,
              !.processes = [i \in 1..Len(@) |-> ProcessReset(@[i])]]

\* Scheduler.reset.
SchedulerReset(s) ==
    [s EXCEPT !.current_time = 0, !.current_process = NoProcess,
              !.completed_processes = <<>>, !.execution_log = <<>>,
              !.processes = [i \in 1..Len(@) |-> ProcessReset(@[i])]]

\* RoundRobinScheduler.reset.
RRReset(s) == [SchedulerReset(s) EXCEPT !.ready_queue = <<>>]

\* MultilevelQueueScheduler.reset.
MLQReset(s) ==
    [SchedulerReset(s) EXCEPT !.queues = [k \in 1..Len(@) |-> <<>>]]

\* reset() of the object's class.
Reset(s) ==
    CASE kind = "RR" -> RRReset(s)
      [] kind = "MLQ" -> MLQReset(s)
      [] OTHER -> SchedulerReset(s)

\* The object takes the attribute values of s.
Becomes(s) ==
    /\ processes' = s.processes
    /\ current_time' = s.current_time
    /\ time_slice' = s.time_slice
    /\ current_process' = s.current_process
    /\ completed_processes' = s.completed_processes
    /\ execution_log' = s.execution_log
    /\ ready_queue' = s.ready_queue
    /\ queues' = s.queues

(* ------------------------------ actions -------------------------------- *)
\* The caller calls reset() on a scheduler that is not inside run().
ResetCall ==
    /\ pc \in {"new", "done"}
    /\ \E s \in {Reset(CurrentState)} : Becomes(s)
    /\ pc' = "new"
    /\ UNCHANGED <<statics, previous_scheduler, until_time, run_history>>

\* run(until) is called: reset() of the object's class, then the loop is entered.
RunStart ==
    /\ pc \in {"new", "done"}
    /\ Len(run_history) < MaxRuns
    /\ \E u \in {None} \cup 1..MaxUntil : until_time' = u
    /\ \E s \in {Reset(CurrentState)} : Becomes(s)
    /\ pc' = "running"
    /\ UNCHANGED <<statics, previous_scheduler, run_history>>

\* One iteration with no ready process: log IDLE and jump to the next arrival.
IdleStep ==
    /\ pc = "running"
    /\ LoopCondition
    /\ ReadyProcesses = <<>>
    /\ NextArrival # None
    /\ execution_log' = (IF current_time < NextArrival
                         THEN Append(execution_log, <<IDLE, current_time, NextArrival>>)
                         ELSE execution_log)
    /\ current_time' = NextArrival
    /\ UNCHANGED <<statics, previous_scheduler, processes, time_slice,
                   current_process, completed_processes, ready_queue, queues,
                   until_time, pc, run_history>>

\* Mutant: the context switch is logged but the clock is not advanced.
ContextSwitchKeepsClock(ready, next_process) ==
    IF NeedsContextSwitch(next_process)
    THEN [processes |-> WaitOthers(processes, ready, next_process,
                                   context_switch_overhead),
          execution_log |-> Append(execution_log,
                                   <<CS, current_time,
                                     current_time + context_switch_overhead>>),
          current_time |-> current_time]
    ELSE [processes |-> processes, execution_log |-> execution_log,
          current_time |-> current_time]

\* The engine after the context-switch part of an iteration.
ContextSwitchPhase(ready, next_process) ==
    IF NeedsContextSwitch(next_process)
    THEN [processes |-> WaitOthers(processes, ready, next_process,
                                   context_switch_overhead),
          execution_log |-> Append(execution_log,
                                   <<CS, current_time,
                                     current_time + context_switch_overhead>>),
          current_time |-> current_time + context_switch_overhead]
    ELSE [processes |-> processes, execution_log |-> execution_log,
          current_time |-> current_time]

\* Mutant: the log entry and the clock take the whole slice, not what was executed.
ExecutePhaseWholeSlice(s, ready, next_process, slice, execution_time) ==
    [processes |-> WaitOthers([s.processes EXCEPT
                                  ![next_process] = Execute(@, s.current_time, slice)],
                              ready, next_process, execution_time),
     execution_log |-> Append(s.execution_log,
                              <<s.processes[next_process].pid, s.current_time,
                                s.current_time + slice>>),
     current_time |-> s.current_time + slice]

\* The engine after execute, the log entry, the clock update and the waits,
\* execution_time being what execute returned.
ExecutePhase(s, ready, next_process, slice, execution_time) ==
    [processes |-> WaitOthers([s.processes EXCEPT
                                  ![next_process] = Execute(@, s.current_time, slice)],
                              ready, next_process, execution_time),
     execution_log |-> Append(s.execution_log,
                              <<s.processes[next_process].pid, s.current_time,
                                s.current_time + execution_time>>),
     current_time |-> s.current_time + execution_time]

DispatchPhases(s, ready, next_process, slice) ==
    ExecutePhase(s, ready, next_process, slice,
                 ActualExecution(s.processes[next_process], slice))

\* Mutant: the dispatched process is recorded as completed without the
\* is_terminated check.
CompletedUnchecked(procs, next_process) == Append(completed_processes, next_process)

\* completed_processes after the completion check of the iteration.
CompletedAfter(procs, next_process) ==
    IF IsTerminated(procs[next_process])
    THEN Append(completed_processes, next_process)
    ELSE completed_processes

\* The end of the iteration: the completion check and the new engine state.
Commit(s, sel) ==
    /\ processes' = s.processes
    /\ execution_log' = s.execution_log
    /\ current_time' = s.current_time
    /\ current_process' = (IF IsTerminated(s.processes[sel.next])
                           THEN NoProcess ELSE sel.next)
    /\ completed_processes' = CompletedAfter(s.processes, sel.next)
    /\ ready_queue' = sel.ready_queue
    /\ queues' = sel.queues
    /\ time_slice' = sel.time_slice
    /\ pc' = "running"
    /\ UNCHANGED <<statics, previous_scheduler, until_time, run_history>>

\* get_next_process returned None: None.execute raises and run() aborts.
Crash(sel) ==
    /\ pc' = "crashed"
    /\ ready_queue' = sel.ready_queue
    /\ queues' = sel.queues
    /\ time_slice' = sel.time_slice
    /\ UNCHANGED <<statics, previous_scheduler, processes, current_time,
                   current_process, completed_processes, execution_log,
                   until_time, run_history>>

\* The iteration once get_next_process has returned sel.
Dispatch(ready, sel) ==
    IF sel.next = NoProcess
    THEN Crash(sel)
    ELSE \E s1 \in {ContextSwitchPhase(ready, sel.next)} :
         \E s2 \in {DispatchPhases(s1, ready, sel.next, sel.time_slice)} :
            Commit(s2, sel)

\* One iteration with a ready process: select, context switch, execute, record.
DispatchStep ==
    /\ pc = "running"
    /\ LoopCondition
    /\ ReadyProcesses # <<>>
    /\ \E ready \in {ReadyProcesses} :
       \E sel \in {GetNextProcess(ready)} :
          Dispatch(ready, sel)

\* The loop ends (condition false, or the break) and run() returns.
Finish ==
    /\ pc = "running"
    /\ \/ ~LoopCondition
       \/ (ReadyProcesses = <<>> /\ NextArrival = None)
    /\ pc' = "done"
    /\ run_history' = Append(run_history,
                             [until_time |-> until_time,
                              execution_log |-> execution_log])
    /\ UNCHANGED <<statics, previous_scheduler, processes, current_time,
                   time_slice, current_process, completed_processes,
                   execution_log, ready_queue, queues, until_time>>

Next == ResetCall \/ RunStart \/ IdleStep \/ DispatchStep \/ Finish

Spec == Init /\ [][Next]_vars

\* run() is a synchronous loop: once called it keeps iterating until it returns.
FairSpec == Spec /\ WF_vars(IdleStep \/ DispatchStep \/ Finish)

(* ------------- several schedulers over one process list (main.py) ------- *)
\* What run_simulation keeps of a scheduler once it has run: the object itself
\* (its completed list refers to the shared Process objects) and the values it
\* reported, copied at that moment (the metrics dict and the details table).
SchedulerAfterRun ==
    [completed_processes |-> completed_processes,
     execution_log |-> execution_log,
     current_time |-> current_time,
     reported |-> [processes |-> processes,
                   avg_waiting_time |-> GetAverageWaitingTime,
                   avg_turnaround_time |-> GetAverageTurnaroundTime,
                   avg_response_time |-> GetAverageResponseTime]]

\* The next scheduler of the list takes the processes: every process is reset,
\* then add_processes hands the same Process objects to a scheduler that was
\* constructed but never run.
NextScheduler ==
    /\ pc = "done"
    /\ previous_scheduler = NoScheduler
    /\ previous_scheduler' = SchedulerAfterRun
    /\ kind' \in Kinds \ {kind}
    /\ time_quantum' \in (IF kind' = "RR" THEN 1..MaxQuantum ELSE {None})
    /\ preemptive' \in (IF kind' = "Priority" THEN BOOLEAN ELSE {FALSE})
    /\ queue_count' \in (IF kind' = "MLQ" THEN 2..MaxQueueCount ELSE {None})
    /\ processes' = [i \in 1..Len(processes) |-> ProcessReset(processes[i])]
    /\ current_time' = 0
    /\ time_slice' = (IF kind' = "RR" THEN time_quantum' ELSE DefaultTimeSlice)
    /\ current_process' = NoProcess
    /\ completed_processes' = <<>>
    /\ execution_log' = <<>>
    /\ ready_queue' = <<>>
    /\ queues' = (IF kind' = "MLQ" THEN EmptyQueues(queue_count') ELSE <<>>)
    /\ until_time' = None
    /\ pc' = "new"
    /\ UNCHANGED <<context_switch_overhead, run_history>>

\* scheduler.run() as run_simulation calls it: without a time budget.
RunWhole == RunStart /\ until_time' = None

SharedNext == RunWhole \/ IdleStep \/ DispatchStep \/ Finish \/ NextScheduler

SharedSpec == Init /\ [][SharedNext]_vars

(* ---------------- schedulers built from invalid static data ------------- *)
\* Process(...) and RoundRobinScheduler(...) accept any values: workloads with
\* a negative arrival_time, a burst_time of 0 or a repeated pid, and a Round
\* Robin quantum of 0.
UncheckedParams == [arrival_time : (0 - 1)..1, burst_time : 0..1, priority : {0}]

UncheckedWorkloads ==
    UNION {
        { [i \in 1..n |-> NewProcess(pids[i], w[i].arrival_time, w[i].burst_time,
                                     w[i].priority)]
            : w \in [1..n -> UncheckedParams], pids \in [1..n -> 1..n] }
        : n \in 1..MaxProcs }

\* The static data the specification calls invalid.
InvalidStaticData ==
    \/ (kind = "RR" /\ time_quantum <= 0)
    \/ \E i \in 1..Len(processes) :
          \/ processes[i].arrival_time < 0
          \/ processes[i].burst_time <= 0
          \/ \E j \in 1..Len(processes) : i # j /\ processes[i].pid = processes[j].pid

\* A scheduler constructed and given its processes, the static data invalid.
UncheckedInit ==
    /\ kind \in Kinds
    /\ time_quantum \in (IF kind = "RR" THEN 0..1 ELSE {None})
    /\ preemptive \in (IF kind = "Priority" THEN BOOLEAN ELSE {FALSE})
    /\ queue_count \in (IF kind = "MLQ" THEN {MaxQueueCount} ELSE {None})
    /\ context_switch_overhead \in 0..MaxOverhead
    /\ processes \in UncheckedWorkloads
    /\ InvalidStaticData
    /\ current_time = 0
    /\ time_slice = (IF kind = "RR" THEN time_quantum ELSE DefaultTimeSlice)
    /\ current_process = NoProcess
    /\ completed_processes = <<>>
    /\ execution_log = <<>>
    /\ ready_queue = <<>>
    /\ queues = (IF kind = "MLQ" THEN EmptyQueues(queue_count) ELSE <<>>)
    /\ until_time = None
    /\ pc = "new"
    /\ run_history = <<>>
    /\ previous_scheduler = NoScheduler

\* A dispatch, followed only while the log is short (a quantum of 0 makes the
\* loop append entries for ever).
ShortLogDispatchStep == Len(execution_log) < MaxLogLen /\ DispatchStep

UncheckedNext ==
    ResetCall \/ RunStart \/ IdleStep \/ ShortLogDispatchStep \/ Finish

UncheckedSpec == UncheckedInit /\ [][UncheckedNext]_vars

(* ------------------------- properties checked -------------------------- *)
\* The static parameters of the processes, in list order.
Workload ==
    [i \in 1..Len(processes) |->
        <<processes[i].pid, processes[i].arrival_time, processes[i].burst_time,
          processes[i].priority>>]

IsScenario == Workload = <<<<1, 0, 5, 0>>, <<2, 1, 3, 0>>, <<3, 2, 1, 0>>>>

\* run() has returned and was called without a time budget.
ReturnedNoBudget == pc = "done" /\ until_time = None

Occurrences(s, x) == Cardinality({k \in 1..Len(s) : s[k] = x})

\* The positions of the execution-log entries of process i.
LogEntriesOf(i) ==
    {k \in 1..Len(execution_log) : execution_log[k][1] = processes[i].pid}

\* C1 (final state): when a run without time budget has returned, every process
\* is terminated with remaining_time 0 and is in the completed list exactly once.
AllCompletedOnce ==
    /\ Len(completed_processes) = Len(processes)
    /\ \A i \in 1..Len(processes) :
          /\ processes[i].state = "terminated"
          /\ processes[i].remaining_time = 0
          /\ Occurrences(completed_processes, i) = 1

\* C1: for every policy and workload, a run without time budget terminates
\* (the loop reaches its return, never an abort), and on return every process is
\* terminated with remaining_time 0 and completed exactly once.
C1_RunTerminates ==
    /\ (pc = "running" /\ until_time = None) ~> (pc = "done")
    /\ [](ReturnedNoBudget => AllCompletedOnce)

C1_Witness ==
    /\ ReturnedNoBudget
    /\ kind = "MLQ"
    /\ context_switch_overhead > 0
    /\ Len(processes) = 2
    /\ \E k \in 1..Len(execution_log) : execution_log[k][1] = IDLE

\* C2: in every reachable state the execution log starts at 0, every entry has
\* start <= end, each entry ends where the next starts, and the last entry ends
\* at the clock (an empty log means the clock is still 0).
C2_LogGapFree ==
    /\ execution_log = <<>> => current_time = 0
    /\ execution_log # <<>> =>
          /\ execution_log[1][2] = 0
          /\ execution_log[Len(execution_log)][3] = current_time
    /\ \A k \in 1..Len(execution_log) : execution_log[k][2] <= execution_log[k][3]
    /\ \A k \in 1..(Len(execution_log) - 1) :
          execution_log[k][3] = execution_log[k+1][2]

C2_Witness ==
    /\ \E k \in 1..Len(execution_log) : execution_log[k][1] = IDLE
    /\ \E k \in 1..Len(execution_log) : execution_log[k][1] = CS
    /\ \E k \in 1..Len(execution_log) : execution_log[k][1] > 0
    /\ pc = "running"

\* C3: at the end of a run, for every completed process,
\* waiting_time + (sum of its execution_history durations) = turnaround time
\* = finish_time - arrival_time.
C3_WaitingPlusExecutionIsTurnaround ==
    pc = "done" =>
        \A k \in 1..Len(completed_processes) :
            /\ processes[completed_processes[k]].waiting_time
                 + SumDurations(processes[completed_processes[k]].execution_history)
               = GetTurnaroundTime(processes[completed_processes[k]])
            /\ GetTurnaroundTime(processes[completed_processes[k]])
               = processes[completed_processes[k]].finish_time
                 - processes[completed_processes[k]].arrival_time

\* C4 (state part): 0 <= remaining_time <= burst_time, and a process is
\* terminated exactly when its remaining_time is 0.
RemainingTimeInRange ==
    \A i \in 1..Len(processes) :
        /\ 0 <= processes[i].remaining_time
        /\ processes[i].remaining_time <= processes[i].burst_time
        /\ (processes[i].state = "terminated") <=> (processes[i].remaining_time = 0)

\* C4: in every reachable state 0 <= remaining_time <= burst_time and a process
\* is terminated exactly when remaining_time is 0; and no step of a run's loop
\* increases any remaining_time.
C4_RemainingTime ==
    /\ []RemainingTimeInRange
    /\ [][pc = "running" =>
            \A i \in 1..Len(processes) :
                processes'[i].remaining_time <= processes[i].remaining_time]_vars

C4_Witness ==
    /\ pc = "running"
    /\ \E i \in 1..Len(processes) :
          /\ 0 < processes[i].remaining_time
          /\ processes[i].remaining_time < processes[i].burst_time
    /\ \E i \in 1..Len(processes) : processes[i].state = "terminated"

\* C5 (state part): start_time is the start of the process's first log entry,
\* response_time = start_time - arrival_time >= 0, and finish_time is the end of
\* its last log entry, set only with remaining_time 0.
TimesMatchLog ==
    \A i \in 1..Len(processes) :
        /\ (processes[i].start_time = None) <=> (LogEntriesOf(i) = {})
        /\ (processes[i].response_time = None) <=> (processes[i].start_time = None)
        /\ processes[i].start_time # None =>
              /\ \E k \in LogEntriesOf(i) :
                    /\ \A m \in LogEntriesOf(i) : k <= m
                    /\ execution_log[k][2] = processes[i].start_time
              /\ processes[i].response_time
                    = processes[i].start_time - processes[i].arrival_time
              /\ processes[i].response_time >= 0
        /\ (processes[i].finish_time # None) <=> (processes[i].remaining_time = 0)
        /\ processes[i].finish_time # None =>
              \E k \in LogEntriesOf(i) :
                    /\ \A m \in LogEntriesOf(i) : m <= k
                    /\ execution_log[k][3] = processes[i].finish_time

\* C5 (step part): a loop step never changes an assigned start_time,
\* response_time or finish_time; the step that assigns start_time takes it from
\* the clock at which the dispatch began, and the step that brings
\* remaining_time to 0 sets finish_time to the clock it ends at.
TimesWriteOnce ==
    pc = "running" =>
        \A i \in 1..Len(processes) :
            /\ processes[i].start_time # None =>
                  processes'[i].start_time = processes[i].start_time
            /\ processes[i].response_time # None =>
                  processes'[i].response_time = processes[i].response_time
            /\ processes[i].finish_time # None =>
                  processes'[i].finish_time = processes[i].finish_time
            /\ (processes[i].start_time = None /\ processes'[i].start_time # None) =>
                  processes'[i].start_time
                     = execution_log'[Len(execution_log')][2]
            /\ (processes[i].remaining_time > 0 /\ processes'[i].remaining_time = 0) =>
                  processes'[i].finish_time = current_time'

\* C5: within a run start_time, response_time and finish_time are write-once;
\* start_time is the clock of the first dispatch, response_time = start_time -
\* arrival_time >= 0, finish_time is the clock at which remaining_time reached 0.
C5_TimesWriteOnce == []TimesMatchLog /\ [][TimesWriteOnce]_vars

C5_Witness ==
    /\ pc = "running"
    /\ context_switch_overhead > 0
    /\ \E i \in 1..Len(processes) :
          /\ Len(processes[i].execution_history) >= 2
          /\ processes[i].finish_time # None
          /\ processes[i].response_time > 0

\* C6: two run() calls without time budget on the same scheduler object and
\* workload return identical execution logs (the first being that of a freshly
\* constructed scheduler).
C6_Determinism ==
    \A a, b \in 1..Len(run_history) :
        (run_history[a].until_time = None /\ run_history[b].until_time = None)
            => run_history[a].execution_log = run_history[b].execution_log

\* The scenario under FCFS without context-switch overhead, run to the end.
ScenarioFCFSDone ==
    IsScenario /\ kind = "FCFS" /\ context_switch_overhead = 0 /\ ReturnedNoBudget

\* The log with neighbouring entries of the same subject merged into one.
RECURSIVE Coalesce(_)
Coalesce(log) ==
    IF Len(log) <= 1 THEN log
    ELSE IF log[1][1] = log[2][1] /\ log[1][3] = log[2][2]
         THEN Coalesce(<<<<log[1][1], log[1][2], log[2][3]>>>> \o SubSeq(log, 3, Len(log)))
         ELSE <<log[1]>> \o Coalesce(Tail(log))

\* C7 as stated: the scenario's FCFS log is exactly the three entries
\* (P1,0,5), (P2,5,8), (P3,8,9).
C7_ScenarioFCFSLogAsStated ==
    ScenarioFCFSDone =>
        execution_log = <<<<1, 0, 5>>, <<2, 5, 8>>, <<3, 8, 9>>>>

\* C7 amended: the scenario's FCFS log holds one entry per tick, nine in all,
\* (P1,0,1)..(P1,4,5), (P2,5,6)..(P2,7,8), (P3,8,9); with neighbouring entries of
\* the same process merged it is (P1,0,5), (P2,5,8), (P3,8,9).
C7_ScenarioFCFSLog ==
    ScenarioFCFSDone =>
        /\ execution_log = <<<<1, 0, 1>>, <<1, 1, 2>>, <<1, 2, 3>>, <<1, 3, 4>>,
                             <<1, 4, 5>>, <<2, 5, 6>>, <<2, 6, 7>>, <<2, 7, 8>>,
                             <<3, 8, 9>>>>
        /\ Coalesce(execution_log) = <<<<1, 0, 5>>, <<2, 5, 8>>, <<3, 8, 9>>>>

C7_Witness == ScenarioFCFSDone /\ Len(run_history) = 1

\* C8: the scenario under FCFS ends with waiting times P1 = 0, P2 = 4, P3 = 6.
C8_ScenarioFCFSWaiting ==
    (IsScenario /\ kind = "FCFS" /\ ReturnedNoBudget) =>
        /\ processes[1].waiting_time = 0
        /\ processes[2].waiting_time = 4
        /\ processes[3].waiting_time = 6

\* C9: the scenario under SRTF without context-switch overhead: the first log
\* entry is (P1,0,1), the log contains (P3,2,3), and the finish times are
\* P3 = 3, P2 = 5, P1 = 9.
C9_ScenarioSRTF ==
    (IsScenario /\ kind = "SRTF" /\ context_switch_overhead = 0 /\ ReturnedNoBudget) =>
        /\ execution_log[1] = <<1, 0, 1>>
        /\ \E k \in 1..Len(execution_log) : execution_log[k] = <<3, 2, 3>>
        /\ processes[3].finish_time = 3
        /\ processes[2].finish_time = 5
        /\ processes[1].finish_time = 9

C9_Witness ==
    IsScenario /\ kind = "SRTF" /\ context_switch_overhead = 0 /\ ReturnedNoBudget
    /\ Len(run_history) = 2

\* C10: under FCFS with exactly one process, at the end of the run
\* turnaround time = burst_time and waiting_time = 0, whatever the arrival time.
C10_SingleProcessFCFS ==
    (kind = "FCFS" /\ Len(processes) = 1 /\ ReturnedNoBudget) =>
        /\ GetTurnaroundTime(processes[1]) = processes[1].burst_time
        /\ processes[1].waiting_time = 0

C10_Witness ==
    /\ kind = "FCFS" /\ Len(processes) = 1 /\ ReturnedNoBudget
    /\ processes[1].arrival_time > 0
    /\ processes[1].burst_time > 1
    /\ execution_log[1][1] = IDLE

\* All processes of the workload arrive at time 0.
AllArriveAtZero == \A i \in 1..Len(processes) : processes[i].arrival_time = 0

\* time_quantum >= the maximum burst_time of the workload.
QuantumCoversBursts ==
    \A i \in 1..Len(processes) : time_quantum >= processes[i].burst_time

\* A Round Robin run to the end on a workload of the claim C11.
RRDegenerateDone ==
    kind = "RR" /\ AllArriveAtZero /\ QuantumCoversBursts /\ ReturnedNoBudget

\* The order in which FCFS completes the workload: ascending (arrival_time, pid).
FCFSOrder == SortedByArrival([i \in 1..Len(processes) |-> i])

\* FCFS run to the end completes the processes in FCFSOrder.
FCFSCompletesInFCFSOrder ==
    (kind = "FCFS" /\ ReturnedNoBudget) => completed_processes = FCFSOrder

\* Every process ran in exactly one dispatch.
OneDispatchEach ==
    \A i \in 1..Len(processes) : Len(processes[i].execution_history) = 1

\* C11 as stated: when all processes arrive at time 0 (in any order of the
\* workload list), Round Robin with time_quantum >= the maximum burst_time
\* completes the processes in the order FCFS completes them, each in one
\* uninterrupted dispatch.
C11_RRDegeneratesToFCFSAsStated ==
    /\ FCFSCompletesInFCFSOrder
    /\ RRDegenerateDone => (completed_processes = FCFSOrder /\ OneDispatchEach)

\* C11 amended: when all processes arrive at time 0, Round Robin with
\* time_quantum >= the maximum burst_time completes the processes in the order
\* of the workload list, each in one uninterrupted dispatch; that is the order
\* FCFS completes them (ascending pid) when the list is in ascending pid order.
C11_RRDegeneratesToListOrder ==
    /\ FCFSCompletesInFCFSOrder
    /\ RRDegenerateDone =>
          /\ completed_processes = [i \in 1..Len(processes) |-> i]
          /\ OneDispatchEach
          /\ (\A i, j \in 1..Len(processes) :
                 i < j => processes[i].pid < processes[j].pid)
                => completed_processes = FCFSOrder

C11_Witness ==
    /\ RRDegenerateDone
    /\ Len(processes) = 2
    /\ processes[1].pid > processes[2].pid
    /\ processes[1].burst_time = MaxBurst
    /\ context_switch_overhead > 0

\* The sum of waiting_time over all processes of the workload.
TotalWaitingTime == SumWaitingTime([i \in 1..Len(processes) |-> i])

C13_ResetIdempotent ==
    /\ \A i \in 1..Len(processes) :
          ProcessReset(ProcessReset(processes[i])) = ProcessReset(processes[i])
    /\ Reset(Reset(CurrentState)) = Reset(CurrentState)

\* reset() has been called on a Multilevel scheduler after a run that dispatched
\* and completed processes.
C13_Witness ==
    /\ pc = "new" /\ kind = "MLQ" /\ Len(run_history) = MaxRuns
    /\ Len(processes) = MaxProcs
    /\ Len(run_history[MaxRuns].execution_log) > MaxProcs
    /\ CurrentState = Reset(CurrentState)

\* The postcondition of reset() on the state s it returns, given the state
\* before it.
ResetPostcondition(before, s) ==
    /\ s.current_time = 0
    /\ s.current_process = NoProcess
    /\ s.completed_processes = <<>>
    /\ s.execution_log = <<>>
    /\ s.ready_queue = <<>>
    /\ \A k \in 1..Len(s.queues) : s.queues[k] = <<>>
    /\ Len(s.queues) = Len(before.queues)
    /\ Len(s.processes) = Len(before.processes)
    /\ \A i \in 1..Len(s.processes) :
          /\ s.processes[i].remaining_time = s.processes[i].burst_time
          /\ s.processes[i].waiting_time = 0
          /\ s.processes[i].state = "new"
          /\ s.processes[i].start_time = None
          /\ s.processes[i].finish_time = None
          /\ s.processes[i].response_time = None
          /\ s.processes[i].execution_history = <<>>
          /\ s.processes[i].pid = before.processes[i].pid
          /\ s.processes[i].arrival_time = before.processes[i].arrival_time
          /\ s.processes[i].burst_time = before.processes[i].burst_time
          /\ s.processes[i].priority = before.processes[i].priority

\* C14: reset() called in any reachable state leaves clock 0, no current
\* process, empty completed list and log, empty Round Robin queue and Multilevel
\* tier queues, every process with remaining_time = burst_time, waiting_time 0,
\* state NEW, no start/finish/response time and an empty history, and the pid,
\* arrival_time, burst_time, priority and the process list as they were; a
\* reset() call and the reset that starts run() both establish it.
C14_ResetPostcondition ==
    /\ []ResetPostcondition(CurrentState, Reset(CurrentState))
    /\ [][(ResetCall \/ RunStart) => ResetPostcondition(CurrentState, CurrentState')]_vars

\* reset() has been called after a Round Robin run with a time budget.
C14_Witness ==
    /\ pc = "new" /\ kind = "RR" /\ Len(run_history) = 1
    /\ run_history[1].until_time # None
    /\ Len(processes) = MaxProcs
    /\ run_history[1].execution_log # <<>>
    /\ ResetPostcondition(CurrentState, CurrentState)

\* No engine or process state has been modified: the clock has not advanced,
\* no log entry is written, nothing is completed and every process is as built.
NothingModified ==
    /\ current_time = 0
    /\ execution_log = <<>>
    /\ completed_processes = <<>>
    /\ current_process = NoProcess
    /\ \A i \in 1..Len(processes) :
          processes[i] = NewProcess(processes[i].pid, processes[i].arrival_time,
                                    processes[i].burst_time, processes[i].priority)

\* C15: with invalid static data (a Round Robin quantum <= 0, two processes
\* with the same pid, a negative arrival_time, a burst_time <= 0) a run is
\* rejected before any engine or process state is modified: the loop of run()
\* is never entered and the clock, the log and the processes stay untouched.
C15_InvalidDataRejected ==
    InvalidStaticData => NothingModified

\* The metric is 0 and computing it raised no ZeroDivisionError.
IsZeroMetric(m) == m.den # 0 /\ m.num = 0

\* Every reported metric of the scheduler is 0, without division by zero.
AllMetricsZero ==
    /\ IsZeroMetric(GetAverageWaitingTime)
    /\ IsZeroMetric(GetAverageTurnaroundTime)
    /\ IsZeroMetric(GetAverageResponseTime)
    /\ IsZeroMetric(GetCpuUtilization)
    /\ IsZeroMetric(CalculateMetrics(completed_processes, current_time).avg_waiting_time)
    /\ IsZeroMetric(CalculateMetrics(completed_processes, current_time).avg_turnaround_time)
    /\ IsZeroMetric(CalculateMetrics(completed_processes, current_time).avg_response_time)
    /\ IsZeroMetric(CalculateMetrics(completed_processes, current_time).throughput)
    /\ IsZeroMetric(CalculateMetrics(completed_processes, current_time).cpu_utilization)

\* C16: a run with zero processes, under any policy and with or without a time
\* budget, returns at once (the loop body is never executed) with clock 0, an
\* empty completed list and an empty log, and the average waiting, turnaround
\* and response times, the throughput and the CPU utilization are 0, computed
\* without division by zero.
C16_EmptyWorkload ==
    /\ []((Len(processes) = 0 /\ pc \in {"running", "done"}) =>
            /\ current_time = 0
            /\ completed_processes = <<>>
            /\ execution_log = <<>>
            /\ AllMetricsZero)
    /\ [][(Len(processes) = 0 /\ pc = "running") => pc' = "done"]_vars

C16_Witness ==
    /\ Len(processes) = 0 /\ pc = "done" /\ kind = "MLQ"
    /\ Len(run_history) = MaxRuns
    /\ run_history[1].until_time # None
    /\ run_history[1].execution_log = <<>>
    /\ AllMetricsZero

\* A run with a time budget is inside its loop / has returned.
RunningWithBudget == pc = "running" /\ until_time # None

ReturnedWithBudget == pc = "done" /\ until_time # None

\* C17 (state part): a process with remaining_time > 0 is never in the
\* completed list, and when run(T) has returned the completed list holds
\* exactly the terminated processes, each once.
CompletedAreTheTerminated ==
    /\ \A i \in 1..Len(processes) :
          processes[i].remaining_time > 0 => ~Contains(completed_processes, i)
    /\ ReturnedWithBudget =>
          \A i \in 1..Len(processes) :
              Occurrences(completed_processes, i)
                 = (IF IsTerminated(processes[i]) THEN 1 ELSE 0)

\* C17 (step part): once the clock has reached the budget the only step of the
\* run is its return: no idle jump, context switch or dispatch begins.
NoStepAfterBudget ==
    (RunningWithBudget /\ current_time >= until_time) =>
        /\ pc' = "done"
        /\ UNCHANGED <<processes, current_time, current_process,
                       completed_processes, execution_log, ready_queue, queues>>

\* C17: with a time budget T, run(T) always terminates, starts no new
\* scheduling step (idle jump, context switch or dispatch) once clock >= T, and
\* returns as completed exactly the processes that are terminated at that
\* point, each once; a process with remaining_time > 0 is never in the
\* completed list.
C17_BudgetedRun ==
    /\ RunningWithBudget ~> (pc = "done")
    /\ []CompletedAreTheTerminated
    /\ [][NoStepAfterBudget]_vars

\* run(T) returned with one process completed and another one unfinished.
C17_Witness ==
    /\ ReturnedWithBudget
    /\ current_time >= until_time
    /\ Len(completed_processes) = 1
    /\ \E i \in 1..Len(processes) : processes[i].remaining_time > 0
    /\ context_switch_overhead > 0

\* C18: until_time is the maximum simulation time: when run(until_time = T)
\* returns, the clock is <= T and no execution-log entry ends after T, for every
\* policy, time slice, context-switch overhead and arrival pattern.
C18_BudgetIsMaximumTime ==
    ReturnedWithBudget =>
        /\ current_time <= until_time
        /\ \A k \in 1..Len(execution_log) : execution_log[k][3] <= until_time

\* The engine is about to call get_next_process with a non-empty ready set.
AboutToSelect == pc = "running" /\ LoopCondition /\ ReadyProcesses # <<>>

\* Process i has the smallest (arrival_time, pid) of the ready set.
IsEarliestOf(i, ready) ==
    \A k \in 1..Len(ready) :
        \/ processes[i].arrival_time < processes[ready[k]].arrival_time
        \/ /\ processes[i].arrival_time = processes[ready[k]].arrival_time
           /\ processes[i].pid <= processes[ready[k]].pid

\* Round Robin's queue, after its update by get_next_process, is empty.
RRQueueEmpty(ready) ==
    RRRequeueCurrent(RRAppendNew(ready_queue, ready, RRCurrentPids), ready) = <<>>

\* All Multilevel tier queues, after their update by get_next_process, are empty.
MLQQueuesEmpty(ready) == FirstNonEmpty(MLQUpdatedQueues(ready)) = 0

\* What get_next_process returns for the ready set.
SelectionSound(ready, next_process) ==
    /\ next_process # NoProcess
    /\ Contains(ready, next_process)
    /\ IsArrived(processes[next_process], current_time)
    /\ ~IsTerminated(processes[next_process])
    /\ (kind = "RR" /\ RRQueueEmpty(ready)) => IsEarliestOf(next_process, ready)
    /\ (kind = "MLQ" /\ MLQQueuesEmpty(ready)) => IsEarliestOf(next_process, ready)

\* C19: a run never aborts on a policy inconsistency: for every policy, in
\* every reachable engine state with a non-empty ready set, get_next_process
\* returns a member of the ready set (arrived, not terminated), never None; and
\* when Round Robin's queue or all Multilevel tier queues are empty at the
\* policy's inconsistency test, the ready process with the smallest
\* (arrival_time, pid) is returned.
C19_SelectionNeverFails ==
    /\ pc # "crashed"
    /\ AboutToSelect => SelectionSound(ReadyProcesses, GetNextProcess(ReadyProcesses).next)

\* The Multilevel policy takes its fallback: the current process, of the FCFS
\* tier, is ready and unfinished, another process has not arrived yet, and
\* every tier queue is empty.
C19_Witness ==
    /\ AboutToSelect
    /\ kind = "MLQ"
    /\ Len(processes) = MaxProcs
    /\ current_process # NoProcess
    /\ Contains(ReadyProcesses, current_process)
    /\ completed_processes = <<>>
    /\ MLQQueuesEmpty(ReadyProcesses)

\* The contract of execute(t, q): p the process before the call, r after it,
\* a the value returned.
ExecuteContract(p, r, t, q, a) ==
    /\ a <= q /\ a <= p.remaining_time
    /\ (a = q \/ a = p.remaining_time)
    /\ r.remaining_time = p.remaining_time - a
    /\ Len(r.execution_history) = Len(p.execution_history) + 1
    /\ SubSeq(r.execution_history, 1, Len(p.execution_history)) = p.execution_history
    /\ r.execution_history[Len(r.execution_history)] = <<t, t + a>>
    /\ (r.state = "terminated") <=> (r.remaining_time = 0)
    /\ (r.finish_time # None) <=> (r.remaining_time = 0)
    /\ r.remaining_time = 0 => r.finish_time = t + a
    /\ r.waiting_time = p.waiting_time
    /\ r.pid = p.pid
    /\ r.arrival_time = p.arrival_time
    /\ r.burst_time = p.burst_time
    /\ r.priority = p.priority

\* C20 (call part): execute(t, q), called on any unterminated process of a
\* reachable state with any q >= 1 and any t, meets its contract.
ExecuteMeetsContract ==
    \A i \in 1..Len(processes) :
        ~IsTerminated(processes[i]) =>
            \A q \in 1..MediumTimeQuantum :
                \A t \in {current_time} \cup 0..MaxArrival :
                    ExecuteContract(processes[i], Execute(processes[i], t, q), t, q,
                                    ActualExecution(processes[i], q))

\* C20 (step part): in every dispatch of a run the dispatched process changes
\* as the contract says, t, q and a taken from the engine: the start of the new
\* log entry, the time slice granted and the length of the new log entry.
DispatchMeetsContract ==
    \A i \in 1..Len(processes) :
        (pc = "running"
           /\ Len(processes'[i].execution_history)
                 = Len(processes[i].execution_history) + 1) =>
            ExecuteContract(processes[i], processes'[i],
                            execution_log'[Len(execution_log')][2], time_slice',
                            execution_log'[Len(execution_log')][3]
                               - execution_log'[Len(execution_log')][2])

\* C20: Process.execute(t, q) on an unterminated process with q >= 1 returns
\* a = min(q, remaining_time), decreases remaining_time by exactly a, appends
\* exactly one interval (t, t + a) to execution_history, sets state TERMINATED
\* and finish_time = t + a if and only if remaining_time becomes 0, and leaves
\* waiting_time and the static parameters unchanged.
C20_ExecuteContract == []ExecuteMeetsContract /\ [][DispatchMeetsContract]_vars

\* One process was cut by its slice and is still running; another one ended
\* before its slice was used up (a = remaining_time < q) after a context switch.
C20_Witness ==
    /\ pc = "running"
    /\ context_switch_overhead > 0
    /\ \E i, j \in 1..Len(processes) :
          /\ processes[i].state = "running"
          /\ processes[i].remaining_time > 0
          /\ processes[i].execution_history # <<>>
          /\ IsTerminated(processes[j])
          /\ processes[j].finish_time = current_time
          /\ processes[j].burst_time < time_slice

\* What get_next_process returns in the current state.
Selected == GetNextProcess(ReadyProcesses).next

\* (arrival_time, pid) of process i is smaller than that of process j.
EarlierThan(i, j) ==
    \/ processes[i].arrival_time < processes[j].arrival_time
    \/ /\ processes[i].arrival_time = processes[j].arrival_time
       /\ processes[i].pid < processes[j].pid

\* The log entries of one process are next to each other: between two entries
\* of a process there is no entry of another process.
LogRunsUninterrupted ==
    \A k, m \in 1..Len(execution_log) :
        (k < m /\ execution_log[k][1] > 0
               /\ execution_log[k][1] = execution_log[m][1]) =>
            \A j \in k..m : execution_log[j][1] = execution_log[k][1]

\* C21: under FCFS every dispatch selects the ready process with the smallest
\* (arrival_time, pid); processes complete in ascending (arrival_time, pid)
\* order; and once a process has been dispatched no other process is
\* dispatched until it terminates.
C21_FCFSOrder ==
    kind = "FCFS" =>
        /\ AboutToSelect =>
              /\ IsEarliestOf(Selected, ReadyProcesses)
              /\ current_process # NoProcess => Selected = current_process
        /\ \A a, b \in 1..Len(completed_processes) :
              a < b => EarlierThan(completed_processes[a], completed_processes[b])
        /\ LogRunsUninterrupted

\* FCFS has completed the later-listed, earlier-arrived process and keeps the
\* other one, which was ready all along, on the CPU while unfinished.
C21_Witness ==
    /\ kind = "FCFS" /\ AboutToSelect
    /\ Len(processes) = MaxProcs
    /\ completed_processes = <<MaxProcs>>
    /\ current_process = 1
    /\ processes[1].pid > processes[MaxProcs].pid
    /\ processes[1].arrival_time <= processes[MaxProcs].finish_time - 1

\* The policy is one of the two the specification calls non-preemptive besides
\* FCFS.
NonPreemptiveKind == kind = "SJF" \/ (kind = "Priority" /\ ~preemptive)

\* The last dispatched process is unfinished and holds the CPU.
CPUHeld == current_process # NoProcess

\* C22: under SJF and under non-preemptive Priority, once a process has been
\* dispatched no other process is dispatched until it terminates, even if a
\* process with strictly shorter remaining time (SJF) or strictly higher
\* priority (Priority) has arrived in the meantime.
C22_NonPreemption ==
    NonPreemptiveKind =>
        /\ (AboutToSelect /\ CPUHeld) => Selected = current_process
        /\ LogRunsUninterrupted
        /\ \A k \in 1..Len(execution_log) : execution_log[k][1] # CS

\* SJF is about to select while the process on the CPU has more remaining time
\* than a process that arrived after it was dispatched.
C22_Witness ==
    /\ kind = "SJF" /\ AboutToSelect /\ CPUHeld
    /\ \E k \in 1..Len(ReadyProcesses) :
          /\ processes[ReadyProcesses[k]].remaining_time
                < processes[current_process].remaining_time
          /\ processes[ReadyProcesses[k]].arrival_time
                > processes[current_process].start_time

\* The same for non-preemptive Priority: a process of strictly higher priority
\* is ready while another one holds the CPU.
PriorityHeldAgainstHigher ==
    /\ kind = "Priority" /\ ~preemptive /\ AboutToSelect /\ CPUHeld
    /\ \E k \in 1..Len(ReadyProcesses) :
          processes[ReadyProcesses[k]].priority > processes[current_process].priority

\* Process i has the smallest remaining_time of the ready set, ties broken by
\* earliest arrival_time and then by lower pid.
IsShortestOf(i, ready) ==
    \A k \in 1..Len(ready) :
        \/ processes[i].remaining_time < processes[ready[k]].remaining_time
        \/ /\ processes[i].remaining_time = processes[ready[k]].remaining_time
           /\ \/ EarlierThan(i, ready[k])
              \/ i = ready[k]

\* C23: under SRTF at every dispatch, and under SJF at every dispatch made when
\* no unfinished process holds the CPU, the selected process has the smallest
\* remaining_time of the ready set, ties broken by earliest arrival_time and
\* then by lower pid.
C23_ShortestRemainingSelected ==
    (AboutToSelect /\ (kind = "SRTF" \/ (kind = "SJF" /\ ~CPUHeld))) =>
        IsShortestOf(Selected, ReadyProcesses)

\* SRTF preempts: the process selected is not the unfinished one on the CPU,
\* and three processes are ready.
C23_Witness ==
    /\ kind = "SRTF" /\ AboutToSelect /\ CPUHeld
    /\ Selected # current_process
    /\ Len(ReadyProcesses) = 3

\* SJF selects with the CPU free among two ready processes of equal remaining
\* time and equal arrival time.
SJFSelectsOnTie ==
    /\ kind = "SJF" /\ AboutToSelect /\ ~CPUHeld
    /\ Len(ReadyProcesses) = 2
    /\ processes[1].remaining_time = processes[2].remaining_time
    /\ processes[1].arrival_time = processes[2].arrival_time
    /\ processes[1].pid > processes[2].pid

\* Process i has the highest priority of the ready set, ties broken by earliest
\* arrival_time and then by lower pid.
IsHighestPriorityOf(i, ready) ==
    \A k \in 1..Len(ready) :
        \/ processes[i].priority > processes[ready[k]].priority
        \/ /\ processes[i].priority = processes[ready[k]].priority
           /\ \/ EarlierThan(i, ready[k])
              \/ i = ready[k]

\* C24: under preemptive Priority at every dispatch, and under non-preemptive
\* Priority whenever no unfinished process holds the CPU, the selected process
\* has the highest priority value of the ready set; among equal priorities the
\* earliest arrival_time is selected, and among equal priority and arrival_time
\* the lower pid.
C24_PrioritySelection ==
    (AboutToSelect /\ kind = "Priority" /\ (preemptive \/ ~CPUHeld)) =>
        IsHighestPriorityOf(Selected, ReadyProcesses)

\* Round Robin's queue as get_next_process has updated it when it pops.
RRUpdatedQueue(ready) ==
    RRRequeueCurrent(RRAppendNew(ready_queue, ready, RRCurrentPids), ready)

\* The queue q holds no process twice and no terminated process.
QueueClean(q) ==
    /\ \A k, m \in 1..Len(q) : q[k] = q[m] => k = m
    /\ \A k \in 1..Len(q) : ~IsTerminated(processes[q[k]])

\* C25: under Round Robin, in every reachable state the ready queue contains
\* no process twice, no terminated process and not the process just selected;
\* and when the dispatched process is unfinished at the end of its quantum, at
\* the next selection it sits exactly once, at the tail of the queue, behind
\* every other ready process (those that arrived during its quantum included).
C25_RRQueueDiscipline ==
    kind = "RR" =>
        /\ QueueClean(ready_queue)
        /\ CPUHeld => ~Contains(ready_queue, current_process)
        /\ execution_log # <<>> =>
              \A k \in 1..Len(ready_queue) :
                  processes[ready_queue[k]].pid
                     # execution_log[Len(execution_log)][1]
        /\ (AboutToSelect /\ CPUHeld) =>
              /\ QueueClean(RRUpdatedQueue(ReadyProcesses))
              /\ RRUpdatedQueue(ReadyProcesses)[Len(RRUpdatedQueue(ReadyProcesses))]
                    = current_process
              /\ \A k \in 1..Len(ReadyProcesses) :
                    Contains(RRUpdatedQueue(ReadyProcesses), ReadyProcesses[k])

\* The quantum of the process on the CPU has expired with the process
\* unfinished, a process that arrived during the quantum is not queued yet, and
\* a third one is waiting in the queue.
C25_Witness ==
    /\ kind = "RR" /\ AboutToSelect /\ CPUHeld
    /\ Len(ready_queue) = 1
    /\ \E k \in 1..Len(ReadyProcesses) :
          /\ ReadyProcesses[k] # current_process
          /\ ~Contains(ready_queue, ReadyProcesses[k])
          /\ processes[ReadyProcesses[k]].start_time = None

\* C26: under Round Robin the processes that were never dispatched stand in the
\* ready queue in order of arrival_time, whatever their order in the workload
\* list, and a process is never dispatched for the first time while a process
\* that arrived strictly earlier has not been dispatched yet.
NeverDispatched(i) == processes[i].start_time = None

QueueInArrivalOrder(q) ==
    \A k, m \in 1..Len(q) :
        (k < m /\ NeverDispatched(q[k]) /\ NeverDispatched(q[m]))
            => processes[q[k]].arrival_time <= processes[q[m]].arrival_time

C26_RRArrivalOrder ==
    kind = "RR" =>
        /\ QueueInArrivalOrder(ready_queue)
        /\ \A i, j \in 1..Len(processes) :
               (/\ processes[i].start_time # None
                /\ processes[j].arrival_time < processes[i].arrival_time)
                   => /\ processes[j].start_time # None
                      /\ processes[j].start_time < processes[i].start_time

\* Log entries a < b are two consecutive dispatches of the same process.
IsNextDispatch(a, b) ==
    /\ a < b
    /\ execution_log[a][1] > 0
    /\ execution_log[b][1] = execution_log[a][1]
    /\ \A k \in (a + 1)..(b - 1) : execution_log[k][1] # execution_log[a][1]

\* Process i had arrived and was not finished at time t.
ReadyAt(i, t) ==
    /\ processes[i].arrival_time <= t
    /\ processes[i].finish_time = None \/ processes[i].finish_time > t

\* The number of log entries of process i strictly between entries a and b.
DispatchesBetween(a, b, i) ==
    Cardinality({k \in (a + 1)..(b - 1) : execution_log[k][1] = processes[i].pid})

\* The processes other than the one of log entry a that were ready at its end.
OthersReadyAtEndOf(a) ==
    {i \in 1..Len(processes) :
        /\ processes[i].pid # execution_log[a][1]
        /\ ReadyAt(i, execution_log[a][3])}

\* C27: under Round Robin, between two consecutive dispatches of the same
\* process every other process that was ready when its quantum expired is
\* dispatched exactly once and no process is dispatched twice; the time between
\* the two dispatches is at most one quantum for each of these processes plus
\* the context switches around them.
C27_RRBoundedWaiting ==
    kind = "RR" =>
        \A a, b \in 1..Len(execution_log) :
            IsNextDispatch(a, b) =>
                /\ \A i \in 1..Len(processes) :
                       processes[i].pid # execution_log[a][1] =>
                           /\ DispatchesBetween(a, b, i) <= 1
                           /\ i \in OthersReadyAtEndOf(a) =>
                                  DispatchesBetween(a, b, i) = 1
                /\ execution_log[b][2] - execution_log[a][3]
                      <= Cardinality(OthersReadyAtEndOf(a)) * time_quantum
                         + (Cardinality(OthersReadyAtEndOf(a)) + 1)
                             * context_switch_overhead

\* Two other processes were ready when a quantum expired and both ran before
\* the preempted process was dispatched again.
C27_Witness ==
    /\ kind = "RR"
    /\ \E a, b \in 1..Len(execution_log) :
          /\ IsNextDispatch(a, b)
          /\ Cardinality(OthersReadyAtEndOf(a)) = 2
          /\ \A i \in OthersReadyAtEndOf(a) : DispatchesBetween(a, b, i) = 1

Clamp(x, lo, hi) == IF x < lo THEN lo ELSE IF x > hi THEN hi ELSE x

\* The tier assigned to process i, as a position in queues (tier index + 1).
AssignedTier(i) ==
    Clamp(queue_count - 1 - processes[i].priority, 0, queue_count - 1) + 1

\* In the tier queues qs every process stands at most once, in its own tier.
ResidentInOwnTierOnce(qs) ==
    \A k \in 1..Len(qs) : \A m \in 1..Len(qs[k]) :
        /\ k = AssignedTier(qs[k][m])
        /\ \A n \in 1..Len(qs[k]) : qs[k][n] = qs[k][m] => n = m

\* C28: under Multilevel Queue with queue_count >= 2, in every reachable state
\* and in the queues as updated by every selection, each process is resident
\* at most once, and only in the tier
\* clamp(queue_count - 1 - priority, 0, queue_count - 1); the priority being
\* immutable, it never stands in another tier.
C28_StaticTierAssignment ==
    (kind = "MLQ" /\ queue_count >= 2) =>
        /\ Len(queues) = queue_count
        /\ ResidentInOwnTierOnce(queues)
        /\ AboutToSelect => ResidentInOwnTierOnce(MLQUpdatedQueues(ReadyProcesses))

\* A process of negative priority waits in the lowest tier after a process
\* whose priority exceeds the tier count has run from the top tier, and a
\* third one waits in a tier between them.
C28_Witness ==
    /\ kind = "MLQ" /\ queue_count = MaxQueueCount /\ pc = "running"
    /\ \E i, j, h \in 1..Len(processes) :
          /\ processes[i].priority < 0
          /\ Contains(queues[queue_count], i)
          /\ processes[j].priority > queue_count - 1
          /\ processes[j].start_time # None
          /\ Contains(queues[2], h)

\* Process i is of the best (smallest) tier among the processes of ready.
IsOfBestTier(i, ready) ==
    \A k \in 1..Len(ready) : AssignedTier(i) <= AssignedTier(ready[k])

\* C29: under Multilevel Queue the process selected at a dispatch is of the
\* smallest tier index found in the ready set: no process is dispatched while
\* an arrived, unterminated process of a higher-priority tier exists.
C29_StrictTierPriority ==
    (kind = "MLQ" /\ AboutToSelect) =>
        /\ Selected # NoProcess
        /\ Contains(ReadyProcesses, Selected)
        /\ IsOfBestTier(Selected, ReadyProcesses)

\* A process of a lower tier holds the CPU unfinished when a process of a
\* higher tier is ready: the selection takes the CPU away from it.
C29_Witness ==
    /\ kind = "MLQ" /\ AboutToSelect /\ CPUHeld
    /\ Contains(ReadyProcesses, current_process)
    /\ Selected # current_process
    /\ AssignedTier(Selected) < AssignedTier(current_process)
    /\ Len(ReadyProcesses) = 3

\* The quantum configured for the Round Robin tier at position k of queues.
ConfiguredQuantum(k) == IF k = 1 THEN HighTimeQuantum ELSE MediumTimeQuantum

\* C30: under Multilevel Queue a process dispatched from a Round Robin tier
\* runs for min(the tier's quantum, remaining_time), the quantum being 2 for
\* the top tier and 4 for a middle tier; a process dispatched from the lowest
\* (FCFS) tier runs for its whole remaining burst, so it has one log entry.
C30_GrantedQuantum ==
    kind = "MLQ" =>
        /\ AboutToSelect =>
              Min2(GetNextProcess(ReadyProcesses).time_slice,
                   processes[Selected].remaining_time)
                = IF AssignedTier(Selected) < queue_count
                  THEN Min2(ConfiguredQuantum(AssignedTier(Selected)),
                            processes[Selected].remaining_time)
                  ELSE processes[Selected].remaining_time
        /\ \A i \in 1..Len(processes) :
               AssignedTier(i) = queue_count => Cardinality(LogEntriesOf(i)) <= 1

\* Process i is assigned to the lowest (FCFS) tier.
InLowestTier(i) == AssignedTier(i) = queue_count

\* C31: under Multilevel Queue the processes of the lowest tier are served
\* first come, first served: a lowest-tier process is never dispatched for the
\* first time before a lowest-tier process that arrived strictly earlier, and
\* between two log entries of a lowest-tier process there is no entry of
\* another lowest-tier process (only entries of higher tiers).
C31_LowestTierFCFS ==
    kind = "MLQ" =>
        /\ \A i, j \in 1..Len(processes) :
               (/\ InLowestTier(i) /\ InLowestTier(j)
                /\ processes[i].start_time # None
                /\ processes[j].arrival_time < processes[i].arrival_time)
                   => /\ processes[j].start_time # None
                      /\ processes[j].start_time < processes[i].start_time
        /\ \A a, b \in 1..Len(execution_log) :
               IsNextDispatch(a, b) =>
                   \A i \in 1..Len(processes) :
                       (/\ InLowestTier(i)
                        /\ processes[i].pid # execution_log[a][1]
                        /\ \E h \in 1..Len(processes) :
                               /\ processes[h].pid = execution_log[a][1]
                               /\ InLowestTier(h))
                           => DispatchesBetween(a, b, i) = 0

\* Log entry k is the dispatch of a process (not IDLE, not CS).
IsDispatchEntry(k) == execution_log[k][1] > 0

\* Log entry k is the entry in which its process terminated.
IsTerminatingEntry(k) ==
    \E i \in 1..Len(processes) :
        /\ processes[i].pid = execution_log[k][1]
        /\ processes[i].finish_time = execution_log[k][3]

\* Log entry k is a CS entry with what the rule requires around it.
CSEntryJustified(k) ==
    /\ context_switch_overhead > 0
    /\ execution_log[k][3] - execution_log[k][2] = context_switch_overhead
    /\ 1 < k /\ k < Len(execution_log)
    /\ IsDispatchEntry(k - 1) /\ ~IsTerminatingEntry(k - 1)
    /\ IsDispatchEntry(k + 1)
    /\ execution_log[k + 1][1] # execution_log[k - 1][1]
    /\ execution_log[k + 1][2] = execution_log[k][3]

\* C32: a CS entry has the duration context_switch_overhead > 0, stands
\* between the entry of an unterminated process and the dispatch of a different
\* process, which starts at its end; two dispatches of different processes
\* follow each other without CS only when the first one terminated its process
\* or the overhead is 0; FCFS, SJF and non-preemptive Priority logs hold no CS.
C32_ContextSwitchRule ==
    /\ \A k \in 1..Len(execution_log) :
           /\ execution_log[k][1] = CS => CSEntryJustified(k)
           /\ (/\ k < Len(execution_log)
               /\ IsDispatchEntry(k) /\ IsDispatchEntry(k + 1)
               /\ execution_log[k][1] # execution_log[k + 1][1]
               /\ context_switch_overhead > 0)
                  => IsTerminatingEntry(k)
    /\ (kind = "FCFS" \/ NonPreemptiveKind \/ context_switch_overhead = 0) =>
           \A k \in 1..Len(execution_log) : execution_log[k][1] # CS

\* With an overhead, the log holds a CS entry after a preemption and also a
\* change of process without CS after a termination.
C32_Witness ==
    /\ context_switch_overhead > 0
    /\ \E k, m \in 1..Len(execution_log) :
          /\ execution_log[k][1] = CS
          /\ m < Len(execution_log)
          /\ IsDispatchEntry(m) /\ IsDispatchEntry(m + 1)
          /\ execution_log[m][1] # execution_log[m + 1][1]

\* Process i had finished by time t.
FinishedBy(i, t) ==
    processes[i].finish_time # None /\ processes[i].finish_time <= t

\* The arrival times later than t.
ArrivalsAfter(t) ==
    {processes[i].arrival_time : i \in {j \in 1..Len(processes) :
                                            processes[j].arrival_time > t}}

\* C33: an IDLE entry [s, e) is in the log only if every process that had
\* arrived by s had terminated by s, s < e, and e is the smallest arrival_time
\* greater than s; the entry after it starts at e (the clock is e when it is
\* the last entry) and is not an IDLE entry.
C33_IdleRule ==
    \A k \in 1..Len(execution_log) :
        execution_log[k][1] = IDLE =>
            /\ execution_log[k][2] < execution_log[k][3]
            /\ \A i \in 1..Len(processes) :
                   processes[i].arrival_time <= execution_log[k][2]
                       => FinishedBy(i, execution_log[k][2])
            /\ execution_log[k][3] \in ArrivalsAfter(execution_log[k][2])
            /\ \A a \in ArrivalsAfter(execution_log[k][2]) :
                   execution_log[k][3] <= a
            /\ IF k < Len(execution_log)
               THEN /\ execution_log[k + 1][1] # IDLE
                    /\ execution_log[k + 1][2] = execution_log[k][3]
               ELSE current_time = execution_log[k][3]

\* The CPU was idle between the termination of one process and the arrival
\* of the next, which has been dispatched since.
C33_Witness ==
    \E k \in 1..Len(execution_log) :
        /\ execution_log[k][1] = IDLE
        /\ 1 < k /\ k < Len(execution_log)
        /\ IsDispatchEntry(k - 1) /\ IsDispatchEntry(k + 1)

\* The step is a dispatch: the log grows and its new last entry is a process's.
DispatchHappens ==
    /\ pc = "running"
    /\ Len(execution_log') > Len(execution_log)
    /\ execution_log'[Len(execution_log')][1] > 0

\* The process dispatched by the step.
Dispatched(i) == processes[i].pid = execution_log'[Len(execution_log')][1]

\* C34: in every dispatch step each other process of the step's ready set has
\* its waiting_time increased by the ticks executed plus the context switch
\* charged in the step (together the advance of the clock), and the waiting_time
\* of the dispatched process is unchanged.
C34_WaitingAccrual ==
    [][DispatchHappens =>
          \A i \in 1..Len(processes) :
              /\ (Dispatched(i)) =>
                     processes'[i].waiting_time = processes[i].waiting_time
              /\ (Contains(ReadyProcesses, i) /\ ~Dispatched(i)) =>
                     processes'[i].waiting_time
                       = processes[i].waiting_time + (current_time' - current_time)
      ]_vars

\* C35: at the start of every iteration of run(), each process that has
\* arrived, is not terminated and is not the current process is in state
\* READY, and each process that has not arrived yet is in state NEW.
C35_ProcessLifecycle ==
    pc = "running" =>
        \A i \in 1..Len(processes) :
            /\ (/\ IsArrived(processes[i], current_time)
                /\ ~IsTerminated(processes[i])
                /\ i # current_process)
                   => processes[i].state = "ready"
            /\ ~IsArrived(processes[i], current_time)
                   => processes[i].state = "new"

\* The processes in state RUNNING.
RunningProcesses == {i \in 1..Len(processes) : processes[i].state = "running"}

\* C36: in every reachable state at most one process is in state RUNNING, and
\* a process in state RUNNING is the scheduler's current process.
C36_SingleCPU ==
    /\ Cardinality(RunningProcesses) <= 1
    /\ \A i \in RunningProcesses : i = current_process

\* The slice the policy grants: the quantum for Round Robin, 1 otherwise.
PolicySlice == IF kind = "RR" THEN time_quantum ELSE DefaultTimeSlice

\* The log entry appended last by the step.
NewEntry == execution_log'[Len(execution_log')]

\* The context switch the step charged before its dispatch (0 when none).
ChargedCS ==
    IF Len(execution_log') = Len(execution_log) + 2
    THEN context_switch_overhead ELSE 0

\* C37: under FCFS, SJF, SRTF, Priority and Round Robin every dispatch executes
\* the selected process for min(slice, remaining_time) >= 1 ticks, slice being
\* 1, or time_quantum for Round Robin; it appends one entry
\* (pid, clock, clock + amount), clock being the time of the dispatch, and
\* leaves the clock at the end of the entry.
C37_DispatchGranularity ==
    [][(DispatchHappens /\ kind # "MLQ") =>
          \A i \in 1..Len(processes) :
              Dispatched(i) =>
                  /\ Min2(PolicySlice, processes[i].remaining_time) >= 1
                  /\ processes'[i].remaining_time
                        = processes[i].remaining_time
                          - Min2(PolicySlice, processes[i].remaining_time)
                  /\ NewEntry[2] = current_time + ChargedCS
                  /\ NewEntry[3]
                        = NewEntry[2] + Min2(PolicySlice, processes[i].remaining_time)
                  /\ current_time' = NewEntry[3]
                  /\ SubSeq(execution_log', 1, Len(execution_log') - 1)
                        = IF ChargedCS = 0
                          THEN execution_log
                          ELSE Append(execution_log,
                                      <<CS, current_time,
                                        current_time + context_switch_overhead>>)
      ]_vars

\* Round Robin with quantum 2 has dispatched one process for the whole quantum
\* and another for its remaining single tick.
C37_Witness ==
    /\ kind = "RR" /\ time_quantum = 2
    /\ \E a, b \in 1..Len(execution_log) :
          /\ IsDispatchEntry(a) /\ execution_log[a][3] - execution_log[a][2] = 2
          /\ IsDispatchEntry(b) /\ execution_log[b][3] - execution_log[b][2] = 1

\* The busy time the engine derives from the log.
EngineBusyTime ==
    current_time - SumLog(execution_log, IDLE) - SumLog(execution_log, CS)

\* Two fractions have the same value.
SameValue(a, b) == a.num * b.den = b.num * a.den

\* The fraction lies between 0 and 100.
IsPercentage(a) == a.den > 0 /\ 0 <= a.num /\ a.num <= 100 * a.den

\* C38: when a run has returned, with or without a time budget, the execution
\* time summed over the histories of the completed processes equals
\* current_time less the IDLE and CS time of the log, so the cpu_utilization of
\* calculate_metrics and get_cpu_utilization agree and lie between 0 and 100.
C38_UtilizationAccounting ==
    pc = "done" =>
        /\ SumExecutionTimes(completed_processes) = EngineBusyTime
        /\ SameValue(CalculateMetrics(completed_processes, current_time).cpu_utilization,
                     GetCpuUtilization)
        /\ IsPercentage(GetCpuUtilization)
        /\ IsPercentage(CalculateMetrics(completed_processes, current_time).cpu_utilization)

\* Process object i holds the result values scheduler A reported for it.
KeepsReportedResults(i) ==
    /\ processes[i].waiting_time
          = previous_scheduler.reported.processes[i].waiting_time
    /\ processes[i].finish_time
          = previous_scheduler.reported.processes[i].finish_time
    /\ processes[i].response_time
          = previous_scheduler.reported.processes[i].response_time
    /\ GetTurnaroundTime(processes[i])
          = GetTurnaroundTime(previous_scheduler.reported.processes[i])

\* C39: once scheduler B has taken over the process list that scheduler A
\* ran, B starts from processes equal to fresh copies of the workload, and the
\* results of A stay as A reported them: the waiting, turnaround, response and
\* finish times of A's completed processes and the sums behind A's averages.
C39_RunIsolation ==
    previous_scheduler # NoScheduler =>
        /\ pc = "new" =>
               \A i \in 1..Len(processes) :
                   processes[i] = NewProcess(processes[i].pid,
                                             processes[i].arrival_time,
                                             processes[i].burst_time,
                                             processes[i].priority)
        /\ \A k \in 1..Len(previous_scheduler.completed_processes) :
               KeepsReportedResults(previous_scheduler.completed_processes[k])
        /\ previous_scheduler.completed_processes # <<>> =>
               /\ SumWaitingTime(previous_scheduler.completed_processes)
                     = previous_scheduler.reported.avg_waiting_time.num
               /\ SumTurnaroundTime(previous_scheduler.completed_processes)
                     = previous_scheduler.reported.avg_turnaround_time.num
               /\ SumResponseTime(previous_scheduler.completed_processes)
                     = previous_scheduler.reported.avg_response_time.num

\* The (start, end) pairs of the log entries that carry the pid of process i.
HistoryFromLog(i) ==
    LET own == SelectSeq(execution_log, LAMBDA e : e[1] = processes[i].pid)
    IN  [k \in 1..Len(own) |-> <<own[k][2], own[k][3]>>]

\* C40: in every reachable state the execution_history of every process is
\* the sequence of the log entries with its pid, in order and with the same
\* (start, end); its durations sum to burst_time - remaining_time; and every
\* interval starts at or after the arrival_time of the process.
C40_LogHistoryConsistency ==
    \A i \in 1..Len(processes) :
        /\ processes[i].execution_history = HistoryFromLog(i)
        /\ SumDurations(processes[i].execution_history)
              = processes[i].burst_time - processes[i].remaining_time
        /\ \A k \in 1..Len(processes[i].execution_history) :
               processes[i].execution_history[k][1] >= processes[i].arrival_time

\* An unfinished process has run twice, another process in between, and the
\* log also holds an entry that belongs to no process.
C40_Witness ==
    /\ \E i \in 1..Len(processes) :
          /\ Len(processes[i].execution_history) >= 2
          /\ processes[i].remaining_time > 0
          /\ processes[i].execution_history[1][2]
                < processes[i].execution_history[2][1]
    /\ \E k \in 1..Len(execution_log) : execution_log[k][1] < 0

====
